---------------------------- MODULE Spec2Model ----------------------------
(***************************************************************************)
(* A model of opengraph/core.py: Node, Edge, NodeReference and the         *)
(* OpenGraphBuilder (create_node, add_node, the merge on duplicate ids,    *)
(* add_edge, create_edge, validate with its reference resolver, clear).    *)
(*                                                                         *)
(* Python values are encoded as records so that TLC can compare them:      *)
(*   - a property value is [type, val, items]; type is the runtime type,   *)
(*     val the printed payload of a primitive, items the elements of a     *)
(*     list;                                                               *)
(*   - Optional[str] uses the string None for Python's None;               *)
(*   - Optional[Dict] is [isNone, map] with map a total function on Keys   *)
(*     whose value Absent marks a key that is not in the dict.             *)
(* Every call passes freshly built lists and dicts (no aliasing between    *)
(* the arguments of different calls).                                      *)
(***************************************************************************)
EXTENDS Integers, Sequences, FiniteSets, TLC

VARIABLES
    nodes,              \* OpenGraphBuilder.nodes: sequence of Node records
    edges,              \* OpenGraphBuilder.edges: sequence of Edge records
    node_ids,           \* OpenGraphBuilder._node_ids
    metadata,           \* OpenGraphBuilder.metadata
    ctor_source_kind,   \* the source_kind argument given to __init__
    last,               \* the last call: operation, id, merge flag, outcome
    args                \* the node data passed to the last call, where a
                        \* specification records it

vars == <<nodes, edges, node_ids, metadata, ctor_source_kind, last, args>>

-----------------------------------------------------------------------------
(* Bounds and input domains *)

MaxNodeKinds == 3       \* the limit of Node._validate_kinds and of the merge

MaxEdges == 1           \* edges the model lets the builder hold
                        \* under arbitrary sequences of calls

MaxArrayLen == 2        \* longest array passed as a property value

MaxEdgeList == 2        \* edges the model lets the builder hold when it
                        \* follows edges and their endpoints

MaxKindsLen == 4        \* longest kinds list passed when a node is built

MaxMergeLen == 2        \* longest kinds list passed to a merging call

None == "None"          \* Python's None where a string is optional

Truthy(s) == s # None /\ s # ""

Ids == {"a", "b"}

Kinds == {"K1", "K2", "K3", "K4"}

Keys == {"name", "p"}

KeyOrder == <<"name", "p">>

-----------------------------------------------------------------------------
(* Property values *)

Prim(t, v) == [type |-> t, val |-> v, items |-> <<>>]

List(xs) == [type |-> "list", val |-> "", items |-> xs]

Absent == [type |-> "absent", val |-> "", items |-> <<>>]

NoneVal == [type |-> "none", val |-> "", items |-> <<>>]

DictVal == [type |-> "dict", val |-> "", items |-> <<>>]

EmptyMap == [k \in Keys |-> Absent]

NoProps == [isNone |-> TRUE, map |-> EmptyMap]

Props(m) == [isNone |-> FALSE, map |-> m]

KeysOf(m) == {k \in Keys : m[k] # Absent}

\* bool(properties): a dict that is not None and has at least one key
PropsTruthy(p) == ~p.isNone /\ KeysOf(p.map) # {}

\* {k: v for k, v in properties.items() if v is not None}
StripNone(m) == [k \in Keys |-> IF m[k] = NoneVal THEN Absent ELSE m[k]]

\* isinstance(item, t) for the exact type t of another value: bool is a
\* subclass of int, every other type only matches itself
IsInstance(item, t) == item.type = t \/ (item.type = "bool" /\ t = "int")

\* all(isinstance(item, first_type) for item in value)
Homogeneous(xs) == \A i \in 1..Len(xs) : IsInstance(xs[i], xs[1].type)

\* the check _validate_properties makes of one value: "ok" or the error
ValidateValue(v) ==
    IF v.type = "dict" THEN "ErrPropObject"
    ELSE IF v.type = "list" /\ v.items # <<>>
         THEN IF ~Homogeneous(v.items)
              THEN "ErrPropHeterogeneous"
              ELSE IF \E i \in 1..Len(v.items) : v.items[i].type = "dict"
                   THEN "ErrPropArrayObject"
                   ELSE "ok"
         ELSE "ok"


RECURSIVE ValidateFrom(_, _)
\* _validate_properties: the loop over the dict's items, stopping at the
\* first value that is rejected
ValidateFrom(m, i) ==
    IF i > Len(KeyOrder) THEN "ok"
    ELSE IF m[KeyOrder[i]] # Absent /\ ValidateValue(m[KeyOrder[i]]) # "ok"
         THEN ValidateValue(m[KeyOrder[i]])
         ELSE ValidateFrom(m, i + 1)

validate_properties(m) == ValidateFrom(m, 1)

-----------------------------------------------------------------------------
(* Node *)

MkNode(id, kinds, properties, ska) ==
    [id |-> id, kinds |-> kinds, properties |-> properties,
     source_kind_available |-> ska]

\* _validate_kinds without the "at least one kind" rule
validate_kinds_allow_empty(kinds, ska) ==
    IF Len(kinds) > MaxNodeKinds THEN "ErrTooManyKinds" ELSE "ok"

\* _validate_kinds with the limit off by one
validate_kinds_off_by_one(kinds, ska) ==
    IF kinds = <<>> /\ ~ska THEN "ErrNoKinds"
    ELSE IF Len(kinds) >= MaxNodeKinds THEN "ErrTooManyKinds"
    ELSE "ok"

\* Node._validate_kinds
validate_kinds(kinds, ska) ==
    IF kinds = <<>> /\ ~ska THEN "ErrNoKinds"
    ELSE IF Len(kinds) > MaxNodeKinds THEN "ErrTooManyKinds"
    ELSE "ok"

\* the properties a Node or Edge holds after __post_init__ stripped them
post_init_properties(properties) ==
    IF PropsTruthy(properties) THEN Props(StripNone(properties.map))
    ELSE properties

\* Node(id, kinds, properties, source_kind_available): the dataclass
\* constructor followed by __post_init__; err is "ok" or the error raised
NewNode(id, kinds, properties, ska) ==
    LET kerr == validate_kinds(kinds, ska)
        stripped == post_init_properties(properties)
        perr == IF PropsTruthy(properties)
                THEN validate_properties(stripped.map) ELSE "ok"
    IN  [err |-> IF kerr # "ok" THEN kerr ELSE perr,
         node |-> MkNode(id, kinds, stripped, ska)]

-----------------------------------------------------------------------------
(* NodeReference and Edge *)

NodeReference(value, match_by, kind) ==
    [value |-> value, match_by |-> match_by, kind |-> kind]

MkEdge(start, end, kind, properties) ==
    [start |-> start, end |-> end, kind |-> kind, properties |-> properties]

\* Edge(start, end, kind, properties) followed by __post_init__
NewEdge(start, end, kind, properties) ==
    LET stripped == post_init_properties(properties)
        perr == IF PropsTruthy(properties)
                THEN validate_properties(stripped.map) ELSE "ok"
    IN  [err |-> IF ~Truthy(kind) THEN "ErrEdgeKind" ELSE perr,
         edge |-> MkEdge(start, end, kind, stripped)]

-----------------------------------------------------------------------------
(* OpenGraphBuilder: helpers *)

\* self.metadata is not None and self.metadata.source_kind is not None
has_source_kind == ~metadata.isNone /\ metadata.source_kind # None

InSeq(x, xs) == \E i \in 1..Len(xs) : xs[i] = x

\* the kinds of the incoming node taking the place of the existing ones
MergeKindsReplace(existing_kinds, new_kinds) == new_kinds

\* the kinds loop without its membership test
MergeKindsAppendAll(existing_kinds, new_kinds) == existing_kinds \o new_kinds

RECURSIVE MergeKinds(_, _)
\* the loop of _merge_node_properties over new_node.kinds: append each kind
\* that is not yet in existing_node.kinds
MergeKinds(existing_kinds, new_kinds) ==
    IF new_kinds = <<>> THEN existing_kinds
    ELSE MergeKinds(IF InSeq(Head(new_kinds), existing_kinds)
                    THEN existing_kinds
                    ELSE Append(existing_kinds, Head(new_kinds)),
                    Tail(new_kinds))

\* the property overlay with the existing value winning on a conflict
MergePropsKeepExisting(existing_properties, new_properties) ==
    IF PropsTruthy(new_properties)
    THEN IF existing_properties.isNone
         THEN new_properties
         ELSE Props([k \in Keys |->
                        IF existing_properties.map[k] # Absent
                        THEN existing_properties.map[k]
                        ELSE new_properties.map[k]])
    ELSE existing_properties

\* the property part of _merge_node_properties
MergeProps(existing_properties, new_properties) ==
    IF PropsTruthy(new_properties)
    THEN IF existing_properties.isNone
         THEN new_properties
         ELSE Props([k \in Keys |->
                        IF new_properties.map[k] # Absent
                        THEN new_properties.map[k]
                        ELSE existing_properties.map[k]])
    ELSE existing_properties

\* _merge_node_properties(existing_node, new_node): node is existing_node as
\* the call leaves it, err is "ok" or the error raised.  The kinds are
\* appended in place before the limit is checked, and the properties are
\* overlaid in place before the merged node is validated again.
merge_node_properties(existing_node, new_node) ==
    LET kinds1 == MergeKinds(existing_node.kinds, new_node.kinds)
        node1 == [existing_node EXCEPT !.kinds = kinds1]
        props2 == MergeProps(existing_node.properties, new_node.properties)
        node2 == [node1 EXCEPT !.properties = props2]
        kerr == validate_kinds(kinds1, existing_node.source_kind_available)
        perr == IF PropsTruthy(props2)
                THEN validate_properties(props2.map) ELSE "ok"
    IN  IF Len(kinds1) > MaxNodeKinds
        THEN [err |-> "ErrMergeKinds", node |-> node1]
        ELSE [err |-> IF kerr # "ok" THEN kerr ELSE perr, node |-> node2]

\* next(n for n in self.nodes if n.id == id): the index of the first node
\* with that id, 0 when there is none (StopIteration)
FirstIndex(id) ==
    IF \E i \in 1..Len(nodes) : nodes[i].id = id
    THEN CHOOSE i \in 1..Len(nodes) :
            /\ nodes[i].id = id
            /\ \A j \in 1..(i - 1) : nodes[j].id # id
    ELSE 0

Call(op, id, merge_properties, outcome, ret) ==
    [op |-> op, id |-> id, merge_properties |-> merge_properties,
     outcome |-> outcome, ret |-> ret]

\* the branch shared by add_node and create_node once the incoming node
\* exists and the id is in the index: find the existing node and merge
MergeInto(op, new_node, merge_properties) ==
    LET i == FirstIndex(new_node.id)
        r == merge_node_properties(nodes[i], new_node)
    IN  IF i = 0
        THEN /\ last' = Call(op, new_node.id, merge_properties,
                             "ErrStopIteration", 0)
             /\ UNCHANGED <<nodes, edges, node_ids, metadata, ctor_source_kind>>
        ELSE /\ nodes' = [nodes EXCEPT ![i] = r.node]
             /\ last' = Call(op, new_node.id, merge_properties, r.err,
                             IF r.err = "ok" THEN i ELSE 0)
             /\ UNCHANGED <<edges, node_ids, metadata, ctor_source_kind>>

-----------------------------------------------------------------------------
(* OpenGraphBuilder: operations *)

\* add_node keeping the flag the node was built with
InsertedNodeKeepFlag(node) == node

\* add_node on an unseen id: the node as it is stored, its flag overwritten
\* with the builder's source-kind context
InsertedNode(node) ==
    [node EXCEPT !.source_kind_available = has_source_kind]

\* the insertion without the update of the id index
InsertNodeNoIndex(node) ==
    /\ nodes' = Append(nodes, node)
    /\ node_ids' = node_ids

\* the insertion at the front of the list
InsertNodeFront(node) ==
    /\ nodes' = <<node>> \o nodes
    /\ node_ids' = node_ids \cup {node.id}

\* self.nodes.append(node); self._node_ids.add(node.id)
InsertNode(node) ==
    /\ nodes' = Append(nodes, node)
    /\ node_ids' = node_ids \cup {node.id}

\* add_node putting the new node in the place of the one it should merge
\* into
add_node_replacing(id, kinds, properties, ska, merge_properties) ==
    LET built == NewNode(id, kinds, properties, ska)
        node == built.node
    IN  /\ built.err = "ok"
        /\ IF id \in node_ids
           THEN IF ~merge_properties
                THEN /\ last' = Call("add_node", id, merge_properties,
                                     "ErrDuplicate", 0)
                     /\ UNCHANGED <<nodes, edges, node_ids, metadata,
                                    ctor_source_kind>>
                ELSE /\ nodes' = [nodes EXCEPT ![FirstIndex(id)] = node]
                     /\ last' = Call("add_node", id, merge_properties, "ok",
                                     FirstIndex(id))
                     /\ UNCHANGED <<edges, node_ids, metadata,
                                    ctor_source_kind>>
           ELSE /\ InsertNode(InsertedNode(node))
                /\ last' = Call("add_node", id, merge_properties, "ok",
                                Len(nodes) + 1)
                /\ UNCHANGED <<edges, metadata, ctor_source_kind>>

\* add_node(node, merge_properties), node built by the caller with
\* Node(id, kinds, properties, ska)
add_node(id, kinds, properties, ska, merge_properties) ==
    LET built == NewNode(id, kinds, properties, ska)
        node == built.node
    IN  /\ built.err = "ok"
        /\ IF id \in node_ids
           THEN IF ~merge_properties
                THEN /\ last' = Call("add_node", id, merge_properties,
                                     "ErrDuplicate", 0)
                     /\ UNCHANGED <<nodes, edges, node_ids, metadata,
                                    ctor_source_kind>>
                ELSE MergeInto("add_node", node, merge_properties)
           ELSE /\ InsertNode(InsertedNode(node))
                /\ last' = Call("add_node", id, merge_properties, "ok",
                                Len(nodes) + 1)
                /\ UNCHANGED <<edges, metadata, ctor_source_kind>>

\* create_node building the incoming node before it looks at the id index
create_node_build_first(id, kinds, properties, merge_properties) ==
    LET built == NewNode(id, kinds, properties, has_source_kind)
        Raise(e) ==
            /\ last' = Call("create_node", id, merge_properties, e, 0)
            /\ UNCHANGED <<nodes, edges, node_ids, metadata, ctor_source_kind>>
    IN  IF built.err # "ok"
        THEN Raise(built.err)
        ELSE IF id \in node_ids
             THEN IF ~merge_properties
                  THEN Raise("ErrDuplicate")
                  ELSE MergeInto("create_node", built.node, merge_properties)
             ELSE /\ InsertNode(built.node)
                  /\ last' = Call("create_node", id, merge_properties, "ok",
                                  Len(nodes) + 1)
                  /\ UNCHANGED <<edges, metadata, ctor_source_kind>>

\* create_node entering an unseen id in the index before it builds the node
create_node_index_first(id, kinds, properties, merge_properties) ==
    LET built == NewNode(id, kinds, properties, has_source_kind)
        Raise(e) ==
            /\ last' = Call("create_node", id, merge_properties, e, 0)
            /\ UNCHANGED <<nodes, edges, node_ids, metadata, ctor_source_kind>>
    IN  IF id \in node_ids
        THEN IF ~merge_properties
             THEN Raise("ErrDuplicate")
             ELSE IF built.err # "ok"
                  THEN Raise(built.err)
                  ELSE MergeInto("create_node", built.node, merge_properties)
        ELSE IF built.err # "ok"
             THEN /\ last' = Call("create_node", id, merge_properties,
                                  built.err, 0)
                  /\ node_ids' = node_ids \cup {id}
                  /\ UNCHANGED <<nodes, edges, metadata, ctor_source_kind>>
             ELSE /\ InsertNode(built.node)
                  /\ last' = Call("create_node", id, merge_properties, "ok",
                                  Len(nodes) + 1)
                  /\ UNCHANGED <<edges, metadata, ctor_source_kind>>

\* create_node(id, kinds, properties, merge_properties)
create_node(id, kinds, properties, merge_properties) ==
    LET built == NewNode(id, kinds, properties, has_source_kind)
        Raise(e) ==
            /\ last' = Call("create_node", id, merge_properties, e, 0)
            /\ UNCHANGED <<nodes, edges, node_ids, metadata, ctor_source_kind>>
    IN  IF id \in node_ids
        THEN IF ~merge_properties
             THEN Raise("ErrDuplicate")
             ELSE IF built.err # "ok"
                  THEN Raise(built.err)
                  ELSE MergeInto("create_node", built.node, merge_properties)
        ELSE IF built.err # "ok"
             THEN Raise(built.err)
             ELSE /\ InsertNode(built.node)
                  /\ last' = Call("create_node", id, merge_properties, "ok",
                                  Len(nodes) + 1)
                  /\ UNCHANGED <<edges, metadata, ctor_source_kind>>

\* Node(id, kinds, properties, source_kind_available) called on its own,
\* outside the builder
new_node(id, kinds, properties, ska) ==
    /\ last' = Call("Node", id, FALSE, NewNode(id, kinds, properties, ska).err, 0)
    /\ UNCHANGED <<nodes, edges, node_ids, metadata, ctor_source_kind>>

NoCall(op, outcome) == Call(op, None, FALSE, outcome, 0)

\* add_edge dropping an edge equal to one the builder holds
add_edge_once(start, end, kind, properties) ==
    LET built == NewEdge(start, end, kind, properties)
    IN  /\ built.err = "ok"
        /\ edges' = IF InSeq(built.edge, edges) THEN edges
                    ELSE Append(edges, built.edge)
        /\ last' = NoCall("add_edge", "ok")
        /\ UNCHANGED <<nodes, node_ids, metadata, ctor_source_kind>>

\* add_edge(edge), edge built by the caller with Edge(start, end, kind,
\* properties)
add_edge(start, end, kind, properties) ==
    LET built == NewEdge(start, end, kind, properties)
    IN  /\ built.err = "ok"
        /\ edges' = Append(edges, built.edge)
        /\ last' = NoCall("add_edge", "ok")
        /\ UNCHANGED <<nodes, node_ids, metadata, ctor_source_kind>>

\* create_edge(start_value, end_value, kind, start_match_by, end_match_by,
\* start_kind, end_kind, properties)
create_edge(start_value, end_value, kind, start_match_by, end_match_by, start_kind, end_kind, properties) ==
    LET start_ref == NodeReference(start_value, start_match_by, start_kind)
        end_ref == NodeReference(end_value, end_match_by, end_kind)
        built == NewEdge(start_ref, end_ref, kind, properties)
    IN  IF built.err # "ok"
        THEN /\ last' = NoCall("create_edge", built.err)
             /\ UNCHANGED <<nodes, edges, node_ids, metadata, ctor_source_kind>>
        ELSE /\ edges' = Append(edges, built.edge)
             /\ last' = NoCall("create_edge", "ok")
             /\ UNCHANGED <<nodes, node_ids, metadata, ctor_source_kind>>

\* clear() leaving the id index as it was
clear_keep_index ==
    /\ nodes' = <<>>
    /\ edges' = <<>>
    /\ node_ids' = node_ids
    /\ last' = NoCall("clear", "ok")
    /\ UNCHANGED <<metadata, ctor_source_kind>>

\* clear() dropping the metadata as well
clear_drop_metadata ==
    /\ nodes' = <<>>
    /\ edges' = <<>>
    /\ node_ids' = {}
    /\ metadata' = [isNone |-> TRUE, source_kind |-> None]
    /\ last' = NoCall("clear", "ok")
    /\ UNCHANGED ctor_source_kind

\* clear()
clear ==
    /\ nodes' = <<>>
    /\ edges' = <<>>
    /\ node_ids' = {}
    /\ last' = NoCall("clear", "ok")
    /\ UNCHANGED <<metadata, ctor_source_kind>>

-----------------------------------------------------------------------------
(* validate and the reference resolver *)

\* nodes_by_id = {node.id: node for node in self.nodes}: the index of the
\* last node with that id, 0 when the id is not a key
NodesById(id) ==
    IF \E i \in 1..Len(nodes) : nodes[i].id = id
    THEN CHOOSE i \in 1..Len(nodes) :
            /\ nodes[i].id = id
            /\ \A j \in (i + 1)..Len(nodes) : nodes[j].id # id
    ELSE 0

\* the name index without the isinstance(name, str) test
HasNameAnyType(node, name) ==
    /\ PropsTruthy(node.properties)
    /\ node.properties.map["name"] # Absent
    /\ node.properties.map["name"].val = name

\* a node enters nodes_by_name under name when it has properties, a "name"
\* key in them, and a str under that key
HasName(node, name) ==
    /\ PropsTruthy(node.properties)
    /\ node.properties.map["name"] # Absent
    /\ node.properties.map["name"].type = "str"
    /\ node.properties.map["name"].val = name

\* the name index as a plain dict: a later node with the same name replaces
\* the earlier one
NodesByNameLast(name) ==
    LET all == SelectSeq(nodes, LAMBDA n : HasName(n, name))
    IN  IF all = <<>> THEN <<>> ELSE <<all[Len(all)]>>

\* nodes_by_name[name], always as the list of candidates in node order; the
\* code keeps a single node bare and switches to a list at the second
NodesByName(name) == SelectSeq(nodes, LAMBDA n : HasName(n, name))

\* _validate_node_reference(ref, ...): "ok" or the error raised
validate_node_reference(ref) ==
    IF ref.match_by = "id"
    THEN IF NodesById(ref.value) = 0 THEN "ErrIdNotFound"
         ELSE IF Truthy(ref.kind)
                 /\ ~InSeq(ref.kind, nodes[NodesById(ref.value)].kinds)
              THEN "ErrIdKindMismatch"
              ELSE "ok"
    ELSE IF ref.match_by = "name"
    THEN LET candidate_nodes == NodesByName(ref.value)
             matching_nodes ==
                 SelectSeq(candidate_nodes, LAMBDA n : InSeq(ref.kind, n.kinds))
         IN  IF candidate_nodes = <<>> THEN "ErrNameNotFound"
             ELSE IF Len(candidate_nodes) > 1
                  THEN IF ~Truthy(ref.kind) THEN "ErrNameAmbiguous"
                       ELSE IF matching_nodes = <<>> THEN "ErrNameNoKindMatch"
                       ELSE IF Len(matching_nodes) > 1
                            THEN "ErrNameKindAmbiguous"
                            ELSE "ok"
                  ELSE IF Truthy(ref.kind)
                          /\ ~InSeq(ref.kind, candidate_nodes[1].kinds)
                       THEN "ErrNameKindMismatch"
                       ELSE "ok"
    ELSE "ok"

RECURSIVE ValidateEdgesFrom(_)
\* the loop of _validate_edge_references: edge by edge, start before end,
\* stopping at the first error
ValidateEdgesFrom(i) ==
    IF i > Len(edges) THEN "ok"
    ELSE IF validate_node_reference(edges[i].start) # "ok"
         THEN validate_node_reference(edges[i].start)
         ELSE IF validate_node_reference(edges[i].end) # "ok"
              THEN validate_node_reference(edges[i].end)
              ELSE ValidateEdgesFrom(i + 1)

RECURSIVE ValidateStartsFrom(_)
\* the loop checking the start reference of each edge only
ValidateStartsFrom(i) ==
    IF i > Len(edges) THEN "ok"
    ELSE IF validate_node_reference(edges[i].start) # "ok"
         THEN validate_node_reference(edges[i].start)
         ELSE ValidateStartsFrom(i + 1)

\* _validate_edge_references without the end references
validate_edge_references_starts == ValidateStartsFrom(1)

\* _validate_edge_references(): "ok" or the first error raised
validate_edge_references == ValidateEdgesFrom(1)

\* the outcome of validate(): "ok" for True, or the error raised
validate_outcome ==
    IF Len(nodes) # Cardinality({nodes[i].id : i \in 1..Len(nodes)})
    THEN "ErrDuplicateIds"
    ELSE validate_edge_references

\* validate() dropping the edges it has looked at
validate_consuming ==
    /\ last' = NoCall("validate", validate_outcome)
    /\ edges' = <<>>
    /\ UNCHANGED <<nodes, node_ids, metadata, ctor_source_kind>>

\* validate()
validate ==
    /\ last' = NoCall("validate", validate_outcome)
    /\ UNCHANGED <<nodes, edges, node_ids, metadata, ctor_source_kind>>

-----------------------------------------------------------------------------
(* to_dict: the document as a value *)

\* a key the emitted dict does not have
NoKey == "<no key>"

\* NodeReference.to_dict()
NodeReference_to_dict(ref) ==
    [value |-> ref.value,
     match_by |-> ref.match_by,
     kind |-> IF Truthy(ref.kind) THEN ref.kind ELSE NoKey]

\* the "properties" entry always emitted, the empty dict included
EmittedPropertiesAlways(properties) ==
    IF ~properties.isNone
    THEN [present |-> TRUE, map |-> StripNone(properties.map)]
    ELSE [present |-> FALSE, map |-> EmptyMap]

\* the "properties" entry of Node.to_dict() and Edge.to_dict(): the dict
\* without its null entries, and no entry at all when nothing is left
EmittedProperties(properties) ==
    IF ~properties.isNone /\ KeysOf(StripNone(properties.map)) # {}
    THEN [present |-> TRUE, map |-> StripNone(properties.map)]
    ELSE [present |-> FALSE, map |-> EmptyMap]

\* Node.to_dict()
Node_to_dict(node) ==
    [id |-> node.id,
     kinds |-> node.kinds,
     properties |-> EmittedProperties(node.properties)]

\* Edge.to_dict()
Edge_to_dict(edge) ==
    [start |-> NodeReference_to_dict(edge.start),
     end |-> NodeReference_to_dict(edge.end),
     kind |-> edge.kind,
     properties |-> EmittedProperties(edge.properties)]

\* OpenGraphMetadata.to_dict()
OpenGraphMetadata_to_dict(m) ==
    [source_kind |-> IF Truthy(m.source_kind) THEN m.source_kind ELSE NoKey]

\* the "metadata" entry of OpenGraphBuilder.to_dict()
EmittedMetadata ==
    IF ~metadata.isNone /\ Truthy(metadata.source_kind)
    THEN [present |-> TRUE, dict |-> OpenGraphMetadata_to_dict(metadata)]
    ELSE [present |-> FALSE, dict |-> [source_kind |-> NoKey]]

\* the nodes emitted newest first
EmittedNodesReversed ==
    [i \in 1..Len(nodes) |-> Node_to_dict(nodes[Len(nodes) + 1 - i])]

\* [node.to_dict() for node in self.nodes]
EmittedNodes == [i \in 1..Len(nodes) |-> Node_to_dict(nodes[i])]

\* [edge.to_dict() for edge in self.edges]
EmittedEdges == [i \in 1..Len(edges) |-> Edge_to_dict(edges[i])]

\* the value OpenGraphBuilder.to_dict() returns
to_dict_result ==
    [graph |-> [nodes |-> EmittedNodes, edges |-> EmittedEdges],
     metadata |-> EmittedMetadata]

\* to_dict()
to_dict ==
    /\ last' = NoCall("to_dict", "ok")
    /\ UNCHANGED <<nodes, edges, node_ids, metadata, ctor_source_kind>>

-----------------------------------------------------------------------------
(* The builder under arbitrary sequences of calls *)

\* OpenGraphBuilder.__init__(source_kind)
BuilderInit(source_kind) ==
    /\ nodes = <<>>
    /\ edges = <<>>
    /\ node_ids = {}
    /\ metadata = IF Truthy(source_kind)
                  THEN [isNone |-> FALSE, source_kind |-> source_kind]
                  ELSE [isNone |-> TRUE, source_kind |-> None]
    /\ ctor_source_kind = source_kind
    /\ last = NoCall("init", "ok")

SourceKinds == {None, "", "S"}

NoArgs == [kinds |-> <<>>, properties |-> NoProps,
           source_kind_available |-> FALSE]

Args(kinds, properties, ska) ==
    [kinds |-> kinds, properties |-> properties, source_kind_available |-> ska]

\* kind lists the callers of Spec pass
KindLists ==
    {<<>>, <<"K1", "K2">>, <<"K3", "K4">>, <<"K1", "K2", "K3", "K4">>}

\* property dicts the callers of Spec pass: none, a name with a null entry
\* beside it, a nested object
PropInputs ==
    {NoProps,
     Props([EmptyMap EXCEPT !["name"] = Prim("str", "alice"), !["p"] = NoneVal]),
     Props([EmptyMap EXCEPT !["p"] = DictVal])}

\* the start reference the callers of Spec put in edges; the end reference
\* is the id "b"
RefInputs == {NodeReference("alice", "name", "K1")}

EdgeKinds == {"", "E"}

Init ==
    /\ \E source_kind \in SourceKinds : BuilderInit(source_kind)
    /\ args = NoArgs

CreateNode ==
    \E id \in Ids, kinds \in KindLists, properties \in PropInputs,
       merge_properties \in BOOLEAN :
        create_node(id, kinds, properties, merge_properties)
        /\ UNCHANGED args

AddNode ==
    \E id \in Ids, kinds \in KindLists, properties \in PropInputs,
       ska \in BOOLEAN, merge_properties \in BOOLEAN :
        add_node(id, kinds, properties, ska, merge_properties)
        /\ UNCHANGED args

AddEdge ==
    \E start \in RefInputs :
        Len(edges) < MaxEdges
        /\ add_edge(start, NodeReference("b", "id", None), "E", NoProps)
        /\ UNCHANGED args

CreateEdge ==
    \E start \in RefInputs, kind \in EdgeKinds, properties \in PropInputs :
        (Len(edges) < MaxEdges
            \/ NewEdge(start, NodeReference("b", "id", None), kind,
                       properties).err # "ok")
        /\ create_edge(start.value, "b", kind, start.match_by, "id", start.kind,
                    None, properties)
        /\ UNCHANGED args

Validate == validate /\ UNCHANGED args

Clear == clear /\ UNCHANGED args

Next == CreateNode \/ AddNode \/ AddEdge \/ CreateEdge \/ Validate \/ Clear

Spec == Init /\ [][Next]_vars

-----------------------------------------------------------------------------
(* Input domains of the single-call specifications *)

KindSeqs(n) == UNION {[1..m -> Kinds] : m \in 0..n}

PropValues == {Prim("str", "alice"), Prim("str", "bob"), NoneVal, DictVal}

\* every dict over Keys with values from PropValues, and no dict at all
AllProps == {NoProps} \cup {Props(m) : m \in [Keys -> PropValues \cup {Absent}]}

FewProps == {NoProps, Props([EmptyMap EXCEPT !["name"] = Prim("str", "alice")])}

\* (kinds, properties) pairs: every kinds list up to length n with few
\* property dicts, and one kinds list with every property dict
NodeInputs(n) ==
    (KindSeqs(n) \X FewProps) \cup ({<<"K1">>} \X AllProps)

\* the call recorded with the node data it was given
Recorded(kinds, properties, ska) == args' = Args(kinds, properties, ska)

FirstCall == last.op = "init"

-----------------------------------------------------------------------------
(* One node built, directly or into an empty builder *)

InitNode ==
    /\ \E source_kind \in SourceKinds : BuilderInit(source_kind)
    /\ args = NoArgs

ConstructNode ==
    \E in \in NodeInputs(MaxKindsLen), ska \in BOOLEAN :
        /\ FirstCall
        /\ new_node("a", in[1], in[2], ska)
        /\ Recorded(in[1], in[2], ska)

CreateFirst ==
    \E in \in NodeInputs(MaxKindsLen), merge_properties \in BOOLEAN :
        /\ FirstCall
        /\ create_node("a", in[1], in[2], merge_properties)
        /\ Recorded(in[1], in[2], has_source_kind)

AddFirst ==
    \E in \in NodeInputs(MaxKindsLen), ska \in BOOLEAN,
       merge_properties \in BOOLEAN :
        /\ FirstCall
        /\ add_node("a", in[1], in[2], ska, merge_properties)
        /\ Recorded(in[1], in[2], ska)

NextNode == ConstructNode \/ CreateFirst \/ AddFirst

SpecNode == InitNode /\ [][NextNode]_vars

-----------------------------------------------------------------------------
(* One call on the id of a node the builder already holds *)

\* the builder after OpenGraphBuilder(source_kind) and a successful
\* create_node("a", kinds, properties), for every kinds list the Node
\* constructor accepts
InitMerge ==
    \E source_kind \in SourceKinds, in \in NodeInputs(MaxNodeKinds) :
        LET ska == Truthy(source_kind)
            built == NewNode("a", in[1], in[2], ska)
        IN  /\ built.err = "ok"
            /\ nodes = <<built.node>>
            /\ edges = <<>>
            /\ node_ids = {"a"}
            /\ metadata = IF ska
                          THEN [isNone |-> FALSE, source_kind |-> source_kind]
                          ELSE [isNone |-> TRUE, source_kind |-> None]
            /\ ctor_source_kind = source_kind
            /\ last = NoCall("init", "ok")
            /\ args = NoArgs

CreateAgain ==
    \E in \in NodeInputs(MaxMergeLen), merge_properties \in BOOLEAN :
        /\ FirstCall
        /\ create_node("a", in[1], in[2], merge_properties)
        /\ Recorded(in[1], in[2], has_source_kind)

AddAgain ==
    \E in \in NodeInputs(MaxMergeLen), ska \in BOOLEAN,
       merge_properties \in BOOLEAN :
        /\ FirstCall
        /\ add_node("a", in[1], in[2], ska, merge_properties)
        /\ Recorded(in[1], in[2], ska)

NextMerge == CreateAgain \/ AddAgain

SpecMerge == InitMerge /\ [][NextMerge]_vars

-----------------------------------------------------------------------------
(* Properties *)

NodeOps == {"create_node", "add_node"}

IdsOf(ns) == {ns[i].id : i \in 1..Len(ns)}

\* the step is a create_node or add_node call on an id the builder holds
OnExistingId == last'.op \in NodeOps /\ last'.id \in node_ids

\* the step is a create_node or add_node call on an id the builder lacks
OnUnseenId == last'.op \in NodeOps /\ last'.id \notin node_ids

\* C1: a create_node or add_node call on an existing id with
\* merge_properties = TRUE that raises leaves the nodes (kinds and properties
\* of the existing node included), the id index and the edges as they were.
MergeAllOrNothing ==
    [][(OnExistingId /\ last'.merge_properties /\ last'.outcome # "ok")
          => (nodes' = nodes /\ node_ids' = node_ids /\ edges' = edges)]_vars

\* C2: in every reachable state every node of the builder has at most 3
\* kinds.
AtMostThreeKinds ==
    \A i \in 1..Len(nodes) : Len(nodes[i].kinds) <= MaxNodeKinds

\* C3: in every reachable state every node of the builder whose
\* source_kind_available is FALSE has at least one kind.
KindsUnlessSourceKind ==
    \A i \in 1..Len(nodes) :
        ~nodes[i].source_kind_available => nodes[i].kinds # <<>>

\* C4: building a node with valid properties, with Node(...) or with
\* create_node on an unseen id, succeeds exactly when it has at most 3 kinds
\* and at least 1 unless a source kind is available; every other kind count
\* fails with one of the two kind-count errors.
KindCountDecides ==
    (/\ last.op \in {"Node", "create_node"}
     /\ validate_properties(StripNone(args.properties.map)) = "ok")
    => /\ (last.outcome = "ok")
            <=> (/\ Len(args.kinds) <= 3
                 /\ (Len(args.kinds) >= 1 \/ args.source_kind_available))
       /\ last.outcome \in {"ok", "ErrNoKinds", "ErrTooManyKinds"}

\* an empty kinds list accepted by create_node because of the source kind
KindCountWitness ==
    /\ last.op = "create_node"
    /\ last.outcome = "ok"
    /\ args.kinds = <<>>
    /\ Len(nodes) = 1

\* C5: create_node or add_node on an id already present with
\* merge_properties = FALSE fails with the duplicate-id error and leaves the
\* nodes, the id index and the edges unchanged.
DuplicateRejected ==
    [][(OnExistingId /\ ~last'.merge_properties)
          => /\ last'.outcome = "ErrDuplicate"
             /\ nodes' = nodes
             /\ node_ids' = node_ids
             /\ edges' = edges]_vars

\* a duplicate rejected in a builder that holds two nodes and an edge
DuplicateRejectedWitness ==
    /\ last.op = "create_node"
    /\ last.outcome = "ErrDuplicate"
    /\ last.id \in node_ids
    /\ Len(nodes) = 2
    /\ Len(edges) = 1

\* C6: no two nodes of the list share an id, the id index is the set of the
\* ids in the list, and validate() does not fail with the duplicate-ids error.
UniqueIndexedIds ==
    /\ \A i, j \in 1..Len(nodes) : nodes[i].id = nodes[j].id => i = j
    /\ node_ids = IdsOf(nodes)
    /\ last.op = "validate" => last.outcome # "ErrDuplicateIds"

\* validate() called on a builder that holds two nodes
UniqueIndexedIdsWitness ==
    /\ last.op = "validate"
    /\ Len(nodes) = 2
    /\ node_ids = {"a", "b"}

\* the indices of the incoming kinds that are not among the existing kinds
\* and do not repeat an earlier incoming kind
FirstSeenNew(old, incoming) ==
    {i \in 1..Len(incoming) :
        /\ \A j \in 1..Len(old) : old[j] # incoming[i]
        /\ \A j \in 1..(i - 1) : incoming[j] # incoming[i]}

RECURSIVE Picked(_, _, _)
\* the elements of xs at the indices of idx that are at most n, in order
Picked(xs, idx, n) ==
    IF n = 0 THEN <<>>
    ELSE IF n \in idx THEN Append(Picked(xs, idx, n - 1), xs[n])
         ELSE Picked(xs, idx, n - 1)

\* C7: after a successful merge the kinds of the existing node are its
\* previous kinds, unchanged, followed by the incoming kinds that were not
\* yet present, each once, in the order of their first appearance.
MergedKindsAppended ==
    [][(OnExistingId /\ last'.outcome = "ok")
          => LET i == FirstIndex(last'.id)
                 old == nodes[i].kinds
                 incoming == args'.kinds
             IN  nodes'[i].kinds =
                    old \o Picked(incoming, FirstSeenNew(old, incoming),
                                  Len(incoming))]_vars

\* a merge whose incoming list names a new kind before one already present
MergedKindsWitness ==
    /\ last.op = "add_node"
    /\ last.outcome = "ok"
    /\ last.ret = 1
    /\ args.kinds = <<"K2", "K1">>
    /\ nodes[1].kinds = <<"K3", "K1", "K2">>

\* C8: after a successful merge the property map of the existing node has
\* the keys of the old and of the incoming map; a key of the incoming map has
\* the incoming value, a key only in the old map keeps its value; with no
\* incoming properties the old properties are unchanged, and an existing node
\* without properties gets the incoming map.
MergedPropertiesOverlay ==
    [][(OnExistingId /\ last'.outcome = "ok")
          => LET i == FirstIndex(last'.id)
                 old == nodes[i].properties
                 incoming == post_init_properties(args'.properties)
                 new == nodes'[i].properties
             IN  /\ KeysOf(new.map) = KeysOf(old.map) \cup KeysOf(incoming.map)
                 /\ \A k \in KeysOf(incoming.map) : new.map[k] = incoming.map[k]
                 /\ \A k \in KeysOf(old.map) \ KeysOf(incoming.map) :
                        new.map[k] = old.map[k]
                 /\ KeysOf(incoming.map) = {} => new = old
                 /\ KeysOf(old.map) = {} => new.map = incoming.map]_vars

\* a merge that overwrote "name" and kept the key "p" only the old map had
MergedPropertiesWitness ==
    /\ last.op = "create_node"
    /\ last.outcome = "ok"
    /\ last.ret = 1
    /\ args.properties =
          Props([EmptyMap EXCEPT !["name"] = Prim("str", "bob"), !["p"] = NoneVal])
    /\ nodes[1].properties.map["name"] = Prim("str", "bob")
    /\ nodes[1].properties.map["p"] = Prim("str", "alice")

\* the part of C9 that holds of every call: a call on an existing id keeps
\* the number, the position and the id of every node and returns the node
\* already registered when it succeeds
ExistingIdKeepsList ==
    OnExistingId
    => /\ Len(nodes') = Len(nodes)
       /\ \A i \in 1..Len(nodes) : nodes'[i].id = nodes[i].id
       /\ last'.outcome = "ok"
             => (last'.ret = FirstIndex(last'.id)
                 /\ nodes'[last'.ret].id = last'.id)

\* one node with the id of the call appended after the nodes held before
AppendsOne ==
    /\ Len(nodes') = Len(nodes) + 1
    /\ SubSeq(nodes', 1, Len(nodes)) = nodes
    /\ nodes'[Len(nodes')].id = last'.id
    /\ last'.ret = Len(nodes')

\* C9 as stated: nodes are never removed or reordered except by clear, a
\* call on an existing id keeps the list and returns the registered node, and
\* a call on an unseen id appends exactly one node at the end.
NodesOnlyAppended ==
    [][/\ last'.op # "clear"
            => (/\ Len(nodes') >= Len(nodes)
                /\ \A i \in 1..Len(nodes) : nodes'[i].id = nodes[i].id)
       /\ ExistingIdKeepsList
       /\ OnUnseenId => AppendsOne]_vars

\* C9 amended: as NodesOnlyAppended, but only a successful call on an unseen
\* id appends exactly one node at the end; a call on an unseen id that raises
\* leaves the list as it was.
NodesOnlyAppendedOnSuccess ==
    [][/\ last'.op # "clear"
            => (/\ Len(nodes') >= Len(nodes)
                /\ \A i \in 1..Len(nodes) : nodes'[i].id = nodes[i].id)
       /\ ExistingIdKeepsList
       /\ (OnUnseenId /\ last'.outcome = "ok") => AppendsOne
       /\ (OnUnseenId /\ last'.outcome # "ok") => nodes' = nodes]_vars

\* a merge into the first of two nodes, which returned that node
NodesOnlyAppendedWitness ==
    /\ last.op \in NodeOps
    /\ last.outcome = "ok"
    /\ last.merge_properties
    /\ Len(nodes) = 2
    /\ last.ret = 1
    /\ nodes[1].id = last.id

\* C10: every node of the builder has source_kind_available TRUE exactly
\* when the builder was constructed with a non-empty source kind, whatever
\* flag a pre-built node carried and however often it was merged into.
FlagFollowsBuilder ==
    \A i \in 1..Len(nodes) :
        nodes[i].source_kind_available
            <=> (ctor_source_kind # None /\ ctor_source_kind # "")

\* a node built with the flag TRUE (its kinds are empty) that add_node
\* stored in a builder constructed with the empty string as source kind
FlagFollowsBuilderWitness ==
    /\ last.op = "add_node"
    /\ last.outcome = "ok"
    /\ ctor_source_kind = ""
    /\ nodes[last.ret].kinds = <<>>
    /\ ~nodes[last.ret].source_kind_available

-----------------------------------------------------------------------------
(* validate() on a builder with one edge and up to two nodes *)

\* kinds, names and references of the resolver's callers: a name that is
\* not a str ("7" stands for the int 7), and references looking for the
\* string "7"
ResolveKinds == {<<"K1">>, <<"K2">>, <<"K1", "K2">>}

ResolveNames ==
    {NoProps,
     Props([EmptyMap EXCEPT !["name"] = Prim("str", "alice")]),
     Props([EmptyMap EXCEPT !["name"] = Prim("str", "7")]),
     Props([EmptyMap EXCEPT !["name"] = Prim("int", "7")])}

StartRefs ==
    {NodeReference("a", "id", k) : k \in {None, "K1", "K3"}}
        \cup {NodeReference(v, "name", k) :
                 v \in {"alice", "7"}, k \in {None, "K1", "K3"}}

EndRefs == {NodeReference("b", "id", None), NodeReference("alice", "name", "K2")}

\* OpenGraphBuilder() followed by one add_edge(Edge(start, end, "E"))
InitResolve ==
    \E start \in StartRefs, end \in EndRefs :
        /\ nodes = <<>>
        /\ edges = <<NewEdge(start, end, "E", NoProps).edge>>
        /\ node_ids = {}
        /\ metadata = [isNone |-> TRUE, source_kind |-> None]
        /\ ctor_source_kind = None
        /\ last = NoCall("add_edge", "ok")
        /\ args = NoArgs

CreateNamed ==
    \E id \in Ids, kinds \in ResolveKinds, properties \in ResolveNames,
       merge_properties \in BOOLEAN :
        create_node(id, kinds, properties, merge_properties)
        /\ UNCHANGED args

NextResolve == CreateNamed \/ Validate

SpecResolve == InitResolve /\ [][NextResolve]_vars

\* the classes of errors validate() raises for a reference
Unresolved == {"ErrIdNotFound", "ErrNameNotFound", "ErrNameNoKindMatch"}

KindMismatch == {"ErrIdKindMismatch", "ErrNameKindMismatch"}

Ambiguous == {"ErrNameAmbiguous", "ErrNameKindAmbiguous"}

ErrorClass(outcome) ==
    IF outcome \in Unresolved THEN "unresolved"
    ELSE IF outcome \in KindMismatch THEN "kind-mismatch"
    ELSE IF outcome \in Ambiguous THEN "ambiguous"
    ELSE IF outcome = "ok" THEN "resolves"
    ELSE outcome

\* the nodes a reference names: by id, or by a name property that is a
\* string equal to the value
Named(ref) ==
    {i \in 1..Len(nodes) :
        IF ref.match_by = "id" THEN nodes[i].id = ref.value
        ELSE /\ ~nodes[i].properties.isNone
             /\ nodes[i].properties.map["name"] = Prim("str", ref.value)}

\* the nodes a reference names that pass its kind filter, if it has one
Matching(ref) ==
    {i \in Named(ref) : ref.kind # None => InSeq(ref.kind, nodes[i].kinds)}

SingleCandidate(ref) == ref.match_by = "id" \/ Cardinality(Named(ref)) <= 1

SharedName(ref) == ref.match_by = "name" /\ Cardinality(Named(ref)) >= 2

\* what C11 states for a reference with a single candidate
SingleExpected(ref) ==
    IF Named(ref) = {} THEN "unresolved"
    ELSE IF Matching(ref) = {} THEN "kind-mismatch"
    ELSE "resolves"

\* what C12 states for a name shared by two or more nodes
SharedExpected(ref) ==
    IF ref.kind = None THEN "ambiguous"
    ELSE IF Matching(ref) = {} THEN "unresolved"
    ELSE IF Cardinality(Matching(ref)) > 1 THEN "ambiguous"
    ELSE "resolves"

Validated == last.op = "validate"

\* C11: when validate() meets a reference with a single candidate (by id, or
\* by a name at most one node has as a string), it fails as unresolved when
\* no node has that id or string name, fails with a kind mismatch when the
\* filter is set and the node lacks that kind, and otherwise goes on to the
\* next reference.
SingleCandidateResolution ==
    (Validated /\ SingleCandidate(edges[1].start))
        => IF SingleExpected(edges[1].start) # "resolves"
           THEN ErrorClass(last.outcome) = SingleExpected(edges[1].start)
           ELSE SingleCandidate(edges[1].end)
                   => ErrorClass(last.outcome) = SingleExpected(edges[1].end)

\* a node named by the int 7 is no candidate for the name "7", and the one
\* node named "alice" lacks the kind asked for
SingleCandidateWitness ==
    /\ Validated
    /\ Len(nodes) = 2
    /\ nodes[1].properties.map["name"] = Prim("int", "7")
    /\ nodes[2].properties.map["name"] = Prim("str", "7")
    /\ edges[1].start = NodeReference("7", "name", "K1")
    /\ nodes[2].kinds = <<"K2">>
    /\ last.outcome = "ErrNameKindMismatch"

\* C12: when validate() meets a by-name reference whose name two or more
\* nodes share, it fails as ambiguous without a kind filter; with a filter it
\* fails as unresolved when no candidate has the kind, as ambiguous when
\* more than one has it, and goes on to the next reference when exactly one
\* has it.
SharedNameResolution ==
    (Validated /\ SharedName(edges[1].start))
        => IF SharedExpected(edges[1].start) # "resolves"
           THEN ErrorClass(last.outcome) = SharedExpected(edges[1].start)
           ELSE IF SharedName(edges[1].end)
                THEN ErrorClass(last.outcome) = SharedExpected(edges[1].end)
                ELSE ErrorClass(last.outcome) = SingleExpected(edges[1].end)

\* two nodes named "alice" with kinds [K1] and [K2]: the filter K1 picks the
\* first, the filter K2 the second, and validate() returns True
SharedNameWitness ==
    /\ Validated
    /\ Len(nodes) = 2
    /\ \A i \in 1..2 : nodes[i].properties.map["name"] = Prim("str", "alice")
    /\ nodes[1].kinds = <<"K1">>
    /\ nodes[2].kinds = <<"K2">>
    /\ edges[1].start = NodeReference("alice", "name", "K1")
    /\ edges[1].end = NodeReference("alice", "name", "K2")
    /\ last.outcome = "ok"

UniqueIds == Cardinality(IdsOf(nodes)) = Len(nodes)

\* every endpoint of every edge is matched by exactly one node
EveryEndpointMatchesOne ==
    \A i \in 1..Len(edges) :
        /\ Cardinality(Matching(edges[i].start)) = 1
        /\ Cardinality(Matching(edges[i].end)) = 1

\* C13: validate() returns True exactly when the node ids are unique and
\* every endpoint of every edge is matched by exactly one node (same id, or
\* a string name equal to the value, and the kind filter among its kinds
\* when one is set); in every other case it raises.
ValidateIffOneMatch ==
    Validated =>
        /\ (last.outcome = "ok") <=> (UniqueIds /\ EveryEndpointMatchesOne)
        /\ last.outcome # "ok"
              => last.outcome \in Unresolved \cup KindMismatch \cup Ambiguous
                                    \cup {"ErrDuplicateIds"}

\* an edge from the id "a" with the filter K1 to the id "b", both present
ValidateIffOneMatchWitness ==
    /\ Validated
    /\ last.outcome = "ok"
    /\ edges[1].start = NodeReference("a", "id", "K1")
    /\ edges[1].end = NodeReference("b", "id", None)
    /\ Len(nodes) = 2

-----------------------------------------------------------------------------
(* Edges added before, between and after their endpoint nodes *)

\* the edge call recorded with its arguments and with the number of nodes
\* the builder held when it was made
EdgeArgs(start, end, kind, properties) ==
    [start |-> start, end |-> end, kind |-> kind, properties |-> properties,
     nodes_before |-> Len(nodes)]

EdgeStarts == {NodeReference("a", "id", None), NodeReference("alice", "name", "K1")}

EdgeEnd == NodeReference("b", "id", None)

InitEdges ==
    /\ BuilderInit(None)
    /\ args = NoArgs

\* add_edge(Edge(start, end, kind, properties)) for the edges the Edge
\* constructor accepts
AddEdgeAny ==
    \E start \in EdgeStarts, kind \in EdgeKinds, properties \in PropInputs :
        /\ Len(edges) < MaxEdgeList
        /\ add_edge(start, EdgeEnd, kind, properties)
        /\ args' = EdgeArgs(start, EdgeEnd, kind, properties)

CreateEdgeAny ==
    \E start \in EdgeStarts, kind \in EdgeKinds, properties \in PropInputs :
        /\ Len(edges) < MaxEdgeList
        /\ create_edge(start.value, EdgeEnd.value, kind, start.match_by,
                       EdgeEnd.match_by, start.kind, EdgeEnd.kind, properties)
        /\ args' = EdgeArgs(start, EdgeEnd, kind, properties)

\* the two endpoint nodes: "a" named alice of kind K1, "b" of kind K2
CreateEndpoint ==
    \/ create_node("a", <<"K1">>,
                   Props([EmptyMap EXCEPT !["name"] = Prim("str", "alice")]),
                   FALSE) /\ UNCHANGED args
    \/ create_node("b", <<"K2">>, NoProps, FALSE) /\ UNCHANGED args

NextEdges == AddEdgeAny \/ CreateEdgeAny \/ CreateEndpoint \/ Validate

SpecEdges == InitEdges /\ [][NextEdges]_vars

EdgeOps == {"add_edge", "create_edge"}

\* the properties of the call are none, or a dict without a nested object
\* (null entries allowed)
ValidEdgeProperties(properties) ==
    properties.isNone \/ \A k \in Keys : properties.map[k] # DictVal

\* C14: add_edge, and create_edge with a non-empty kind and valid
\* properties, succeed and append exactly one edge at the end of the edge
\* list, whatever the nodes and the edges already held; and validate()
\* returns True once both endpoint nodes are held, also for edges added
\* before them.
EdgesAppendedUnchecked ==
    [][/\ (/\ last'.op \in EdgeOps
           /\ args'.kind # ""
           /\ ValidEdgeProperties(args'.properties))
          => /\ last'.outcome = "ok"
             /\ Len(edges') = Len(edges) + 1
             /\ SubSeq(edges', 1, Len(edges)) = edges
             /\ edges'[Len(edges')].start = args'.start
             /\ edges'[Len(edges')].end = args'.end
             /\ edges'[Len(edges')].kind = args'.kind
       /\ (last'.op = "validate" /\ IdsOf(nodes) = {"a", "b"})
          => last'.outcome = "ok"]_vars

\* two equal edges added to the empty builder, then both nodes, then
\* validate()
EdgesAppendedWitness ==
    /\ Validated
    /\ last.outcome = "ok"
    /\ Len(edges) = 2
    /\ edges[1] = edges[2]
    /\ args.nodes_before = 0
    /\ Len(nodes) = 2

-----------------------------------------------------------------------------
(* clear() and the first node call after it *)

\* the builder after OpenGraphBuilder(source_kind), a successful
\* create_node("a", kinds, properties) and one add_edge
InitClear ==
    \E source_kind \in SourceKinds, in \in NodeInputs(MaxMergeLen),
       start \in EdgeStarts :
        LET ska == Truthy(source_kind)
            built == NewNode("a", in[1], in[2], ska)
        IN  /\ built.err = "ok"
            /\ nodes = <<built.node>>
            /\ edges = <<NewEdge(start, EdgeEnd, "E", NoProps).edge>>
            /\ node_ids = {"a"}
            /\ metadata = IF ska
                          THEN [isNone |-> FALSE, source_kind |-> source_kind]
                          ELSE [isNone |-> TRUE, source_kind |-> None]
            /\ ctor_source_kind = source_kind
            /\ last = NoCall("add_edge", "ok")
            /\ args = NoArgs

Cleared == last.op = "clear"

CreateAfterClear ==
    \E in \in NodeInputs(MaxMergeLen), merge_properties \in BOOLEAN :
        /\ Cleared
        /\ create_node("a", in[1], in[2], merge_properties)
        /\ Recorded(in[1], in[2], has_source_kind)

AddAfterClear ==
    \E in \in NodeInputs(MaxMergeLen), ska \in BOOLEAN,
       merge_properties \in BOOLEAN :
        /\ Cleared
        /\ add_node("a", in[1], in[2], ska, merge_properties)
        /\ Recorded(in[1], in[2], ska)

NextClear == Clear \/ CreateAfterClear \/ AddAfterClear

SpecClear == InitClear /\ [][NextClear]_vars

\* C15: clear() empties the nodes, the edges and the id index and leaves the
\* metadata alone; the next create_node or add_node with the id used
\* before, whatever its merge_properties, is not refused as a duplicate
\* and, when the node can be built, stores exactly one node with the kinds
\* and the (null-stripped) properties of the call and with the flag the
\* builder's source kind gives.
ClearStartsAfresh ==
    [][/\ last'.op = "clear"
          => /\ nodes' = <<>>
             /\ edges' = <<>>
             /\ node_ids' = {}
             /\ metadata' = metadata
             /\ ctor_source_kind' = ctor_source_kind
       /\ (Cleared /\ last'.op \in NodeOps)
          => /\ last'.outcome
                   = NewNode("a", args'.kinds, args'.properties,
                             args'.source_kind_available).err
             /\ last'.outcome = "ok"
                   => /\ Len(nodes') = 1
                      /\ nodes'[1].id = "a"
                      /\ nodes'[1].kinds = args'.kinds
                      /\ nodes'[1].properties
                            = post_init_properties(args'.properties)
                      /\ nodes'[1].source_kind_available
                            = Truthy(ctor_source_kind)
                      /\ node_ids' = {"a"}]_vars

\* after the clear, add_node("a", [K2], {name: alice}) with
\* merge_properties = FALSE is stored as the only node
ClearStartsAfreshWitness ==
    /\ last.op = "add_node"
    /\ ~last.merge_properties
    /\ last.outcome = "ok"
    /\ edges = <<>>
    /\ Len(nodes) = 1
    /\ nodes[1].kinds = <<"K2">>
    /\ nodes[1].properties.map["name"] = Prim("str", "alice")
    /\ ~metadata.isNone

-----------------------------------------------------------------------------
(* to_dict() between arbitrary calls *)

DictKinds == {<<>>, <<"K1">>}

\* property dicts of the callers: none, only a null entry, a name beside a
\* null entry
DictProps ==
    {NoProps,
     Props([EmptyMap EXCEPT !["p"] = NoneVal]),
     Props([EmptyMap EXCEPT !["name"] = Prim("str", "alice"), !["p"] = NoneVal])}

InitDict ==
    /\ \E source_kind \in SourceKinds : BuilderInit(source_kind)
    /\ args = NoArgs

CreateNodeD ==
    \E id \in Ids, kinds \in DictKinds, properties \in DictProps,
       merge_properties \in BOOLEAN :
        create_node(id, kinds, properties, merge_properties)
        /\ UNCHANGED args

CreateEdgeD ==
    \E properties \in DictProps :
        /\ Len(edges) < MaxEdgeList
        /\ create_edge("a", "b", "E", "id", "id", None, None, properties)
        /\ UNCHANGED args

ToDict == to_dict /\ UNCHANGED args

NextDict == CreateNodeD \/ CreateEdgeD \/ Validate \/ Clear \/ ToDict

SpecDict == InitDict /\ [][NextDict]_vars

IsPrefix(s, t) == Len(s) <= Len(t) /\ SubSeq(t, 1, Len(s)) = s

EmittedIds == [i \in 1..Len(EmittedNodes) |-> EmittedNodes[i].id]

\* C16: to_dict() returns normally and leaves the builder as it was, whether
\* validate() would succeed or not; the document has one node entry per
\* stored node and one edge entry per stored edge; and, except across
\* clear(), every call keeps the emitted ids and the emitted edges as a
\* prefix of the new ones, a merge leaving the emitted ids as they were.
ToDictPureAndOrdered ==
    [][/\ last'.op = "to_dict"
          => /\ last'.outcome = "ok"
             /\ UNCHANGED <<nodes, edges, node_ids, metadata>>
       /\ Len(EmittedNodes') = Len(nodes')
       /\ Cardinality({EmittedIds'[i] : i \in 1..Len(EmittedIds')}) = Len(nodes')
       /\ Len(EmittedEdges') = Len(edges')
       /\ last'.op # "clear"
          => /\ IsPrefix(EmittedIds, EmittedIds')
             /\ IsPrefix(EmittedEdges, EmittedEdges')
       /\ (OnExistingId /\ last'.outcome = "ok") => EmittedIds' = EmittedIds]_vars

\* to_dict() on a builder holding the node "b" and two edges from "a" to
\* "b", which validate() would reject
ToDictPureWitness ==
    /\ last.op = "to_dict"
    /\ validate_outcome = "ErrIdNotFound"
    /\ Len(EmittedEdges) = 2
    /\ EmittedIds = <<"b">>

\* C17: in every reachable state, clear() included, the document has a
\* "metadata" entry exactly when the builder was constructed with a
\* non-empty source kind, its source_kind is then the constructor's value,
\* and a node stored with no kinds is emitted with an empty "kinds" list.
MetadataIffSourceKind ==
    /\ to_dict_result.metadata.present <=> Truthy(ctor_source_kind)
    /\ to_dict_result.metadata.present
          => to_dict_result.metadata.dict.source_kind = ctor_source_kind
    /\ \A i \in 1..Len(nodes) :
          nodes[i].kinds = <<>> => to_dict_result.graph.nodes[i].kinds = <<>>

\* to_dict() on a builder constructed with the source kind "S" that holds
\* the node "a" without kinds, the node "b" and an edge
MetadataIffSourceKindWitness ==
    /\ last.op = "to_dict"
    /\ ctor_source_kind = "S"
    /\ to_dict_result.metadata.dict.source_kind = "S"
    /\ Len(nodes) = 2
    /\ to_dict_result.graph.nodes[1] = Node_to_dict(MkNode("a", <<>>, NoProps, TRUE))
    /\ Len(edges) = 1
    /\ validate_outcome = "ok"

PropertyErrors == {"ErrPropObject", "ErrPropHeterogeneous", "ErrPropArrayObject"}

\* the stored properties hold no null entry
NoNullStored(properties) == \A k \in Keys : properties.map[k] # NoneVal

HasEntries(properties) == ~properties.isNone /\ KeysOf(properties.map) # {}

-----------------------------------------------------------------------------
(* Property values: scalars and arrays through the constructors and a merge *)

\* one value of each runtime type an element can have: str, int, float,
\* bool, None, a dict, a list
Elements ==
    {Prim("str", "x"), Prim("int", "1"), Prim("float", "1.0"),
     Prim("bool", "True"), NoneVal, DictVal, List(<<Prim("int", "1")>>)}

\* the arrays of up to MaxArrayLen elements
Arrays == {List(xs) : xs \in UNION {[1..n -> Elements] : n \in 0..MaxArrayLen}}

\* the property values of the callers: scalars, a dict, arrays
Values == (Elements \ {NoneVal, List(<<Prim("int", "1")>>)}) \cup Arrays

WithValue(v) == Props([EmptyMap EXCEPT !["p"] = v])

InitValues ==
    /\ BuilderInit(None)
    /\ args = NoArgs

ConstructWithValue ==
    \E v \in Values :
        /\ FirstCall
        /\ new_node("a", <<"K1">>, WithValue(v), FALSE)
        /\ Recorded(<<"K1">>, WithValue(v), FALSE)

CreateWithValue ==
    \E v \in Values :
        /\ FirstCall
        /\ create_node("a", <<"K1">>, WithValue(v), FALSE)
        /\ Recorded(<<"K1">>, WithValue(v), FALSE)

\* a second create_node on the same id, merging
MergeWithValue ==
    \E v \in Values :
        /\ last.op = "create_node" /\ ~last.merge_properties
        /\ create_node("a", <<"K1">>, WithValue(v), TRUE)
        /\ Recorded(<<"K1">>, WithValue(v), FALSE)

CreateEdgeWithValue ==
    \E v \in Values :
        /\ FirstCall
        /\ create_edge("a", "b", "E", "id", "id", None, None, WithValue(v))
        /\ Recorded(<<>>, WithValue(v), FALSE)

NextValues ==
    ConstructWithValue \/ CreateWithValue \/ MergeWithValue
        \/ CreateEdgeWithValue

SpecValues == InitValues /\ [][NextValues]_vars

PrimitiveTypes == {"str", "int", "float", "bool"}

Called == last.op # "init"

\* every element has the runtime type of the first, one of the four
\* primitive types
SameTypeAsFirst(xs) ==
    \A i \in 1..Len(xs) :
        xs[i].type = xs[1].type /\ xs[i].type \in PrimitiveTypes

\* C19: a call whose property is an array succeeds exactly when the array
\* is empty or every element has the runtime primitive type of the first
\* (str, int, float and bool being four distinct types); every other array
\* is rejected with a property error.
ArrayAcceptedIffSameType ==
    (Called /\ args.properties.map["p"].type = "list")
        => LET xs == args.properties.map["p"].items
           IN  /\ (last.outcome = "ok") <=> (xs = <<>> \/ SameTypeAsFirst(xs))
               /\ last.outcome # "ok" => last.outcome \in PropertyErrors

\* a primitive, or an array whose elements are all primitives
PrimitiveOrArrayOfPrimitives(v) ==
    \/ v.type \in PrimitiveTypes
    \/ /\ v.type = "list"
       /\ \A i \in 1..Len(v.items) : v.items[i].type \in PrimitiveTypes

AllStoredLegal(properties) ==
    \A k \in Keys :
        properties.map[k] # Absent
            => PrimitiveOrArrayOfPrimitives(properties.map[k])

\* a dict, an array containing a dict, or an array containing an array
NestedValue(v) ==
    \/ v.type = "dict"
    \/ /\ v.type = "list"
       /\ \E i \in 1..Len(v.items) : v.items[i].type \in {"dict", "list"}

\* C20: in every reachable state every property value stored on a node or
\* an edge is a primitive or an array of primitives, after merges too, and
\* a call passing a dict, an array containing a dict or an array containing
\* an array is rejected.
StoredValuesLegal ==
    /\ \A i \in 1..Len(nodes) : AllStoredLegal(nodes[i].properties)
    /\ \A i \in 1..Len(edges) : AllStoredLegal(edges[i].properties)
    /\ (Called /\ NestedValue(args.properties.map["p"]))
          => last.outcome \in PropertyErrors

-----------------------------------------------------------------------------
(* Rebuilding a builder from its document *)

\* the properties argument read back from an emitted entry: the dict under
\* "properties", None when the key is missing
ReadProperties(emitted) ==
    IF emitted.present THEN Props(emitted.map) ELSE NoProps

\* the reference read back from an emitted reference
ReadReference(d) ==
    NodeReference(d.value, d.match_by, IF d.kind = NoKey THEN None ELSE d.kind)

\* create_node(d["id"], d["kinds"], d.get("properties")) on a fresh builder
\* with the same source kind, for the i-th emitted node
RebuiltNode(i) ==
    NewNode(EmittedNodes[i].id, EmittedNodes[i].kinds,
            ReadProperties(EmittedNodes[i].properties), has_source_kind)

\* create_edge(...) from the i-th emitted edge
RebuiltEdge(i) ==
    NewEdge(ReadReference(EmittedEdges[i].start),
            ReadReference(EmittedEdges[i].end), EmittedEdges[i].kind,
            ReadProperties(EmittedEdges[i].properties))

\* C21: in every reachable state the builder rebuilt from the document
\* (same source kind, every emitted node through create_node, every emitted
\* edge through create_edge, in order) is built without error, holds nodes
\* and edges equal to the originals, and emits the same document.
RoundTrip ==
    /\ \A i \in 1..Len(nodes) :
          /\ RebuiltNode(i).err = "ok"
          /\ RebuiltNode(i).node = nodes[i]
          /\ Node_to_dict(RebuiltNode(i).node) = EmittedNodes[i]
    /\ \A i \in 1..Len(edges) :
          /\ RebuiltEdge(i).err = "ok"
          /\ RebuiltEdge(i).edge = edges[i]
          /\ Edge_to_dict(RebuiltEdge(i).edge) = EmittedEdges[i]

-----------------------------------------------------------------------------
(* A node created with one kinds list and merged with another *)

\* create_node("a", first, None) on an empty builder followed by
\* create_node("a", second, None, merge_properties=True), as one
\* computation: err is "ok" when both calls return, kinds the kinds the node
\* then has
CreateThenMerge(first, second, ska) ==
    LET created == NewNode("a", first, NoProps, ska)
        incoming == NewNode("a", second, NoProps, ska)
        merged == merge_node_properties(created.node, incoming.node)
    IN  [err |-> IF created.err # "ok" THEN created.err
                 ELSE IF incoming.err # "ok" THEN incoming.err
                 ELSE merged.err,
         kinds |-> merged.node.kinds]

InitCommute ==
    /\ \E source_kind \in SourceKinds : BuilderInit(source_kind)
    /\ args = NoArgs

CreateWithKinds ==
    \E kinds \in KindSeqs(MaxNodeKinds) :
        /\ FirstCall
        /\ create_node("a", kinds, NoProps, FALSE)
        /\ args' = [first |-> kinds, second |-> <<>>]

MergeKindsInto ==
    \E kinds \in KindSeqs(MaxMergeLen) :
        /\ last.op = "create_node" /\ ~last.merge_properties
        /\ last.outcome = "ok"
        /\ create_node("a", kinds, NoProps, TRUE)
        /\ args' = [first |-> args.first, second |-> kinds]

NextCommute == CreateWithKinds \/ MergeKindsInto

SpecCommute == InitCommute /\ [][NextCommute]_vars

SetOf(xs) == {xs[i] : i \in 1..Len(xs)}

Merged == last.op = "create_node" /\ last.merge_properties

\* C22: creating the node with A and merging B succeeds exactly when
\* creating it with B and merging A succeeds, and then both leave the same
\* set of kinds.
MergeCommutes ==
    Merged =>
        LET swapped == CreateThenMerge(args.second, args.first, has_source_kind)
        IN  /\ (last.outcome = "ok") <=> (swapped.err = "ok")
            /\ last.outcome = "ok"
                  => SetOf(nodes[1].kinds) = SetOf(swapped.kinds)

-----------------------------------------------------------------------------
(* The reference validate() names in its error *)

NoPosition == [edge |-> 0, endpoint |-> "none"]

RECURSIVE DescriptionEndFirst(_)
\* the loop looking at the end reference of an edge before its start
DescriptionEndFirst(i) ==
    IF i > Len(edges) THEN NoPosition
    ELSE IF validate_node_reference(edges[i].end) # "ok"
         THEN [edge |-> i, endpoint |-> "end"]
         ELSE IF validate_node_reference(edges[i].start) # "ok"
              THEN [edge |-> i, endpoint |-> "start"]
              ELSE DescriptionEndFirst(i + 1)

RECURSIVE DescriptionFrom(_)
\* the ref_description ("edge {i} start" / "edge {i} end", edges counted
\* from 1 here) of the call of _validate_node_reference that raises in the
\* loop of _validate_edge_references
DescriptionFrom(i) ==
    IF i > Len(edges) THEN NoPosition
    ELSE IF validate_node_reference(edges[i].start) # "ok"
         THEN [edge |-> i, endpoint |-> "start"]
         ELSE IF validate_node_reference(edges[i].end) # "ok"
              THEN [edge |-> i, endpoint |-> "end"]
              ELSE DescriptionFrom(i + 1)

\* the reference named in the error validate() raises; none when it returns
\* True or raises for duplicate ids
validate_description ==
    IF validate_outcome = "ErrDuplicateIds" THEN NoPosition
    ELSE DescriptionFrom(1)

\* builder.nodes.append(node) with a node whose id the list already holds,
\* as the tests do to reach the duplicate-id check
nodes_append_duplicate ==
    \E i \in 1..Len(nodes) :
        /\ Cardinality(IdsOf(nodes)) = Len(nodes)
        /\ nodes' = Append(nodes, nodes[i])
        /\ last' = NoCall("nodes.append", "ok")
        /\ UNCHANGED <<edges, node_ids, metadata, ctor_source_kind>>

OrderEnds == {NodeReference("b", "id", None), NodeReference("b", "id", "K3")}

InitOrder ==
    /\ BuilderInit(None)
    /\ args = NoArgs

AddEdgeOrder ==
    \E start \in EdgeStarts, end \in OrderEnds :
        /\ Len(edges) < MaxEdgeList
        /\ add_edge(start, end, "E", NoProps)
        /\ UNCHANGED args

AppendDuplicate == nodes_append_duplicate /\ UNCHANGED args

NextOrder == AddEdgeOrder \/ CreateEndpoint \/ AppendDuplicate \/ Validate

SpecOrder == InitOrder /\ [][NextOrder]_vars

\* the endpoint of edge i does not resolve
Fails(i, endpoint) ==
    validate_node_reference(IF endpoint = "start" THEN edges[i].start
                            ELSE edges[i].end) # "ok"

FailingEdges == {i \in 1..Len(edges) : Fails(i, "start") \/ Fails(i, "end")}

LowestFailing == CHOOSE i \in FailingEdges : \A j \in FailingEdges : i <= j

\* C23: when validate() raises, it raises the duplicate-id error if two
\* nodes share an id, whatever the edges; otherwise its error is the one of
\* the lowest-indexed edge with an endpoint that does not resolve, for the
\* start of that edge if it does not resolve and else for its end.
FirstViolationReported ==
    (Validated /\ last.outcome # "ok")
        => IF ~UniqueIds
           THEN last.outcome = "ErrDuplicateIds"
           ELSE /\ FailingEdges # {}
                /\ validate_description.edge = LowestFailing
                /\ validate_description.endpoint
                      = IF Fails(LowestFailing, "start") THEN "start" ELSE "end"
                /\ last.outcome
                      = validate_node_reference(
                            IF Fails(LowestFailing, "start")
                            THEN edges[LowestFailing].start
                            ELSE edges[LowestFailing].end)

\* validate() on two edges: the first resolves, the second has a start that
\* resolves and an end asking the node "b" for a kind it lacks
FirstViolationWitness ==
    /\ Validated
    /\ Len(edges) = 2
    /\ UniqueIds
    /\ ~Fails(1, "start") /\ ~Fails(1, "end")
    /\ ~Fails(2, "start") /\ Fails(2, "end")
    /\ validate_description = [edge |-> 2, endpoint |-> "end"]
    /\ last.outcome = "ErrIdKindMismatch"

\* C24: a validate() call, returning True or raising, leaves the nodes, the
\* edges, the id index and the metadata as they were, and a validate() call
\* right after it has the same outcome.
ValidateChangesNothing ==
    [][last'.op = "validate"
          => /\ nodes' = nodes
             /\ edges' = edges
             /\ node_ids' = node_ids
             /\ metadata' = metadata
             /\ validate_outcome' = last'.outcome
             /\ last.op = "validate" => last'.outcome = last.outcome]_vars

\* validate() raising on a builder with both nodes and two edges, the
\* second asking "b" for a kind it lacks
ValidateChangesNothingWitness ==
    /\ Validated
    /\ last.outcome = "ErrIdKindMismatch"
    /\ IdsOf(nodes) = {"a", "b"}
    /\ node_ids = {"a", "b"}
    /\ Len(edges) = 2
    /\ edges[1].end.kind = None
    /\ edges[2].end.kind = "K3"

-----------------------------------------------------------------------------
(* add_node against create_node on an id the builder holds *)

\* what create_node(id, kinds, properties, merge_properties) returns and
\* leaves behind when id is in the index: the duplicate error, the error of
\* the Node constructor, or the merge into the first node with that id
CreateOnExisting(id, kinds, properties, merge_properties) ==
    LET built == NewNode(id, kinds, properties, has_source_kind)
        i == FirstIndex(id)
        r == merge_node_properties(nodes[i], built.node)
    IN  IF ~merge_properties
        THEN [outcome |-> "ErrDuplicate", nodes |-> nodes]
        ELSE IF built.err # "ok"
             THEN [outcome |-> built.err, nodes |-> nodes]
             ELSE [outcome |-> r.err, nodes |-> [nodes EXCEPT ![i] = r.node]]

\* the call is on an id the builder holds, with data Node(id, kinds,
\* properties) accepts, the node handed to add_node built that way
StandaloneOnExisting ==
    /\ OnExistingId
    /\ NewNode(last'.id, args'.kinds, args'.properties, FALSE).err = "ok"
    /\ last'.op = "add_node" => ~args'.source_kind_available

\* C25: on an id the builder holds and with data a standalone Node accepts,
\* add_node(Node(id, kinds, properties), m) and create_node(id, kinds,
\* properties, m) have the same outcome and leave the same nodes, id index
\* and edges, for both values of m.
AddNodeSameAsCreateNode ==
    [][StandaloneOnExisting
          => LET c == CreateOnExisting(last'.id, args'.kinds, args'.properties,
                                       last'.merge_properties)
             IN  /\ last'.outcome = c.outcome
                 /\ nodes' = c.nodes
                 /\ node_ids' = node_ids
                 /\ edges' = edges]_vars

\* add_node(Node("a", [K2, K1], {name: alice}), True) merged into the node
\* "a" that had the kind K1
AddNodeSameWitness ==
    /\ last.op = "add_node"
    /\ last.merge_properties
    /\ last.outcome = "ok"
    /\ ~args.source_kind_available
    /\ args.kinds = <<"K2", "K1">>
    /\ nodes[1].kinds = <<"K1", "K2">>
    /\ args.properties.map["name"] = Prim("str", "alice")
    /\ nodes[1].properties.map["name"] = Prim("str", "alice")

-----------------------------------------------------------------------------
(* The message of the merge error *)

\* the two lists the "more than 3 kinds" error ends with: new_node.kinds,
\* and existing_node.kinds[:len(existing_node.kinds) - len(new_node.kinds)]
\* taken from the list the loop has already appended to
merge_error_kinds(existing_kinds, new_kinds) ==
    LET merged == MergeKinds(existing_kinds, new_kinds)
    IN  [incoming |-> new_kinds,
         existing |-> SubSeq(merged, 1, Len(merged) - Len(new_kinds))]

\* C26: when a merge fails because the union has more than 3 kinds, its
\* error names the incoming kinds and the kinds the existing node had
\* before the merge, also when some incoming kinds were already on the
\* node.
MergeErrorNamesKinds ==
    [][(OnExistingId /\ last'.outcome = "ErrMergeKinds")
          => LET i == FirstIndex(last'.id)
                 msg == merge_error_kinds(nodes[i].kinds, args'.kinds)
             IN  /\ msg.incoming = args'.kinds
                 /\ msg.existing = nodes[i].kinds]_vars

-----------------------------------------------------------------------------
(* A creation that fails, and the next create_node *)

InitRetry ==
    /\ \E source_kind \in SourceKinds : BuilderInit(source_kind)
    /\ args = NoArgs

CreateNodeFirst ==
    \E kinds \in KindLists, properties \in PropInputs,
       merge_properties \in BOOLEAN :
        /\ FirstCall
        /\ create_node("a", kinds, properties, merge_properties)
        /\ UNCHANGED args

CreateEdgeFirst ==
    \E kind \in EdgeKinds, properties \in PropInputs :
        /\ FirstCall
        /\ create_edge("a", "b", kind, "id", "id", None, None, properties)
        /\ UNCHANGED args

\* the create_node that follows a first call that raised
CreateNodeRetry ==
    \E in \in NodeInputs(MaxMergeLen), merge_properties \in BOOLEAN :
        /\ last.outcome # "ok"
        /\ args = NoArgs
        /\ create_node("a", in[1], in[2], merge_properties)
        /\ Recorded(in[1], in[2], has_source_kind)

NextRetry == CreateNodeFirst \/ CreateEdgeFirst \/ CreateNodeRetry

SpecRetry == InitRetry /\ [][NextRetry]_vars

\* C27: a create_node on an unseen id that raises and a create_edge that
\* raises leave the nodes, the id index and the edges as they were, and the
\* create_node with the same id that follows, when it succeeds, stores the
\* node as the first and only one, with the data of that call alone.
FailedCreationLeavesNothing ==
    [][/\ (/\ last'.op \in {"create_node", "create_edge"}
           /\ last'.outcome # "ok"
           /\ last'.id \notin node_ids)
          => (nodes' = nodes /\ node_ids' = node_ids /\ edges' = edges)
       /\ (/\ last.outcome # "ok"
           /\ last'.op = "create_node"
           /\ last'.outcome = "ok")
          => /\ nodes' = <<MkNode("a", args'.kinds,
                                  post_init_properties(args'.properties),
                                  has_source_kind)>>
             /\ node_ids' = {"a"}
             /\ last'.ret = 1]_vars

\* create_node("a", [K2, K1], {name: alice}) with merge enabled, stored as
\* a new node after a first call that raised
FailedCreationWitness ==
    /\ last.op = "create_node"
    /\ last.merge_properties
    /\ last.outcome = "ok"
    /\ args.kinds = <<"K2", "K1">>
    /\ nodes = <<MkNode("a", <<"K2", "K1">>,
                        Props([EmptyMap EXCEPT !["name"] = Prim("str", "alice")]),
                        FALSE)>>
    /\ edges = <<>>

-----------------------------------------------------------------------------
(* The caller's property dict across two constructions *)

\* the caller's dict with its null entries removed in place
caller_properties_stripped(properties) == post_init_properties(properties)

\* the caller's dict after Node(...) returned or raised: __post_init__
\* rebinds self.properties to a new dict and _validate_properties only
\* reads, so the dict passed in is as it was
caller_properties_after(properties) == properties

InitPure ==
    /\ \E source_kind \in SourceKinds : BuilderInit(source_kind)
    /\ args = NoArgs

\* Node("a", [K1], P) with a dict P the caller keeps
ConstructOnce ==
    \E properties \in AllProps :
        /\ FirstCall
        /\ new_node("a", <<"K1">>, properties, FALSE)
        /\ args' = [passed |-> properties,
                    properties |-> caller_properties_after(properties),
                    first_outcome |-> NewNode("a", <<"K1">>, properties,
                                              FALSE).err,
                    calls |-> 1]

\* Node("a", [K1], P) again, with the same dict as the first call left it
ConstructAgain ==
    /\ last.op = "Node"
    /\ args.calls = 1
    /\ new_node("a", <<"K1">>, args.properties, FALSE)
    /\ args' = [args EXCEPT !.properties = caller_properties_after(@),
                            !.calls = 2]

NextPure == ConstructOnce \/ ConstructAgain

SpecPure == InitPure /\ [][NextPure]_vars

EmptyKindsMergeRejected ==
    [][(/\ OnExistingId
        /\ last'.op = "create_node"
        /\ last'.merge_properties
        /\ args'.kinds = <<>>
        /\ ~has_source_kind)
          => /\ last'.outcome = "ErrNoKinds"
             /\ nodes' = nodes
             /\ node_ids' = node_ids]_vars

\* create_node("a", [], {name: alice}, True) refused on a builder
\* constructed with the source kind "" whose node "a" has three kinds
EmptyKindsMergeWitness ==
    /\ last.op = "create_node"
    /\ last.merge_properties
    /\ last.outcome = "ErrNoKinds"
    /\ args.kinds = <<>>
    /\ args.properties.map["name"] = Prim("str", "alice")
    /\ ctor_source_kind = ""
    /\ Len(nodes[1].kinds) = 3
    /\ nodes[1].properties.isNone

-----------------------------------------------------------------------------
(* References that resolved, after further calls *)

IdRefs ==
    {NodeReference("a", "id", None), NodeReference("a", "id", "K1"),
     NodeReference("b", "id", "K2")}

NameRefs ==
    {NodeReference("alice", "name", None), NodeReference("alice", "name", "K1")}

\* the references that resolve against the nodes the builder holds
Resolving == {r \in IdRefs \cup NameRefs : validate_node_reference(r) = "ok"}

\* the call recorded with the references that resolved before it
RecordedResolving == args' = [resolved |-> Resolving]

StableKinds == {<<"K1">>, <<"K2">>, <<"K3", "K4">>}

StableProps ==
    {NoProps,
     Props([EmptyMap EXCEPT !["name"] = Prim("str", "alice")]),
     Props([EmptyMap EXCEPT !["name"] = Prim("str", "bob")])}

InitStable ==
    /\ BuilderInit(None)
    /\ args = [resolved |-> {}]

\* create_node on "a" with every kinds list and name, and on "b" with the
\* kind K2 and no name or the name alice
CreateNodeS ==
    \E id \in Ids, kinds \in StableKinds, properties \in StableProps,
       merge_properties \in BOOLEAN :
        /\ id = "b" => (kinds = <<"K2">> /\ properties.map["name"].val # "bob")
        /\ create_node(id, kinds, properties, merge_properties)
        /\ RecordedResolving

AddNodeS ==
    \E kinds \in StableKinds, merge_properties \in BOOLEAN :
        add_node("a", kinds, NoProps, FALSE, merge_properties)
        /\ RecordedResolving

AddEdgeS ==
    /\ Len(edges) < MaxEdges
    /\ add_edge(NodeReference("a", "id", "K1"),
                NodeReference("alice", "name", None), "E", NoProps)
    /\ RecordedResolving

CreateEdgeS ==
    \E kind \in EdgeKinds :
        /\ Len(edges) < MaxEdges
        /\ create_edge("a", "alice", kind, "id", "name", "K1", None, NoProps)
        /\ RecordedResolving

NextStable ==
    CreateNodeS \/ AddNodeS \/ AddEdgeS \/ CreateEdgeS \/ Validate \/ Clear

SpecStable == InitStable /\ [][NextStable]_vars

\* C30: a by-id reference, with or without kind filter, that resolves
\* before a create_node, add_node, add_edge, create_edge or validate call,
\* successful or failing, resolves after it; only clear() can end that.
IdReferencesStayResolved ==
    [][last'.op # "clear"
          => \A r \in IdRefs :
                validate_node_reference(r) = "ok"
                    => validate_node_reference(r)' = "ok"]_vars

\* a node call after which the reference to "a" with the filter K1 still
\* resolves while the reference to the name "alice", which resolved before
\* the call, does not
IdReferencesStayWitness ==
    /\ last.op \in NodeOps
    /\ NodeReference("a", "id", "K1") \in args.resolved
    /\ validate_node_reference(NodeReference("a", "id", "K1")) = "ok"
    /\ NodeReference("alice", "name", None) \in args.resolved
    /\ validate_node_reference(NodeReference("alice", "name", None)) # "ok"

=============================================================================
